---- MODULE Spec2Model ----
(***************************************************************************)
(* Model of the U2-Net background removal service: the FastAPI handlers of *)
(* app.py (startup_event, shutdown_event, health_check, remove_background) *)
(* and BackgroundRemover of model_loader.py.                               *)
(***************************************************************************)
EXTENDS Integers, Sequences, FiniteSets, TLC

(***************************************************************************)
(* IEEE-754 binary64 arithmetic, as far as model_loader.py:72-73 uses it:  *)
(* a true division of two positive ints, an int * float product and an     *)
(* int() truncation.  A float is [m, e]: m its 53-bit significand, most    *)
(* significant bit first (always 1), e the exponent of its last bit, so    *)
(* the value is BitsToNat(m) * 2^e.  Long numbers are handled as limbs of  *)
(* 10 bits (base 1024) so that every intermediate fits a machine int; the  *)
(* operands must stay below 2^21.                                          *)
(***************************************************************************)
MantBits == 53

RECURSIVE Pow2(_)
Pow2(n) == IF n = 0 THEN 1 ELSE 2 * Pow2(n - 1)

RECURSIVE BitsToNat(_)
\* value of a short bit string
BitsToNat(b) ==
    IF b = <<>> THEN 0
    ELSE 2 * BitsToNat(SubSeq(b, 1, Len(b) - 1)) + b[Len(b)]

RECURSIVE NatToLimbs(_)
NatToLimbs(n) ==
    IF n = 0 THEN <<>> ELSE NatToLimbs(n \div 1024) \o <<n % 1024>>

\* the limbs written out in bits, 10 per limb
LimbsToBits(L) ==
    [k \in 1..(10 * Len(L)) |->
        (L[((k - 1) \div 10) + 1] \div Pow2(9 - ((k - 1) % 10))) % 2]

\* a bit string of 10 * n bits as n limbs
BitsToLimbs(b) ==
    [j \in 1..(Len(b) \div 10) |-> BitsToNat(SubSeq(b, 10 * j - 9, 10 * j))]

StripZeros(b) ==
    LET ones == {k \in 1..Len(b) : b[k] = 1}
    IN  IF ones = {} THEN <<>>
        ELSE SubSeq(b, CHOOSE k \in ones : \A j \in ones : k <= j, Len(b))

\* b + 1; one bit longer when b is all ones
IncBits(b) ==
    LET zeros == {k \in 1..Len(b) : b[k] = 0}
        last  == CHOOSE k \in zeros : \A j \in zeros : j <= k
    IN  IF zeros = {} THEN <<1>> \o [k \in 1..Len(b) |-> 0]
        ELSE [k \in 1..Len(b) |->
                 IF k < last THEN b[k] ELSE IF k = last THEN 1 ELSE 0]

\* round-half-to-even of a value whose leading MantBits bits are b;
\* above/tie say how the discarded part compares with half a unit
RoundBits(b, e, above, tie) ==
    LET up == above \/ (tie /\ b[Len(b)] = 1)
        r  == IF up THEN IncBits(b) ELSE b
    IN  IF Len(r) > MantBits
        THEN [m |-> SubSeq(r, 1, MantBits), e |-> e + 1]
        ELSE [m |-> r, e |-> e]

RECURSIVE LeadShift(_, _)
\* least i with a * 2^i >= b
LeadShift(a, b) == IF a >= b THEN 0 ELSE 1 + LeadShift(2 * a, b)

RECURSIVE DivLimbs(_, _, _)
\* n further quotient limbs of r / b (r < b), and the remainder left
DivLimbs(r, b, n) ==
    IF n = 0 THEN [q |-> <<>>, r |-> r]
    ELSE LET t    == r * 1024
             rest == DivLimbs(t % b, b, n - 1)
         IN  [q |-> <<t \div b>> \o rest.q, r |-> rest.r]

\* a / b for ints 0 < a <= b, correctly rounded (Python's int / int):
\* the quotient's 53 bits are a 3-bit limb (4..7) and five 10-bit limbs
FloatDiv(a, b) ==
    LET i   == LeadShift(a, b)
        top == a * Pow2(i) * 4
        d   == DivLimbs(top % b, b, 5)
        q   == StripZeros(LimbsToBits(<<top \div b>> \o d.q))
    IN  RoundBits(q, 0 - i - (MantBits - 1), 2 * d.r > b, 2 * d.r = b)

RECURSIVE MulLimbs(_, _, _)
\* the limbs L times the int s, plus carry c
MulLimbs(L, s, c) ==
    IF L = <<>> THEN NatToLimbs(c)
    ELSE LET d == L[Len(L)] * s + c
         IN  MulLimbs(SubSeq(L, 1, Len(L) - 1), s, d \div 1024) \o <<d % 1024>>

\* s * f for an int s >= 1, correctly rounded (Python's int * float)
FloatMul(s, f) ==
    LET pad  == [k \in 1..(60 - MantBits) |-> 0]
        p    == StripZeros(LimbsToBits(MulLimbs(BitsToLimbs(pad \o f.m), s, 0)))
        drop == Len(p) - MantBits
        rest == SubSeq(p, MantBits + 1, Len(p))
        low  == \E k \in 2..drop : rest[k] = 1
    IN  IF drop = 0 THEN [m |-> p, e |-> f.e]
        ELSE RoundBits(SubSeq(p, 1, MantBits), f.e + drop,
                       rest[1] = 1 /\ low, rest[1] = 1 /\ ~low)

\* int(f): truncation of a positive float
FloatToInt(f) ==
    IF f.e >= 0 THEN BitsToNat(f.m) * Pow2(f.e)
    ELSE IF MantBits + f.e <= 0 THEN 0
    ELSE BitsToNat(SubSeq(f.m, 1, MantBits + f.e))

(***************************************************************************)
(* Bounds of the model and the inputs drawn from them.                     *)
(***************************************************************************)
\* number of POST /remove-bg handlers that can be in flight at once
NReq == 1
\* largest side, in pixels, of an uploaded image
MaxSide == 4096

Reqs == 1..NReq

None == "None"
Handle == "BackgroundRemover"

\* max_size of app.py:103
max_upload_size == 10 * 1024 * 1024

\* an upload: its declared content type, the length of its body and what
\* the body decodes to
Upload(ct, len, img) == [ct |-> ct, len |-> len, img |-> img]

\* bytes Image.open cannot decode
NoImage == [ok |-> FALSE, size |-> <<0, 0>>, mode |-> "none", px |-> <<>>]
\* a decodable raster of one colour: its size, its mode and its pixel
Raster(size, mode, px) == [ok |-> TRUE, size |-> size, mode |-> mode, px |-> px]

Small == Raster(<<100, 100>>, "RGB", <<10, 20, 30>>)

Images ==
    {NoImage, Small}
    \cup {Raster(sz, "RGB", <<10, 20, 30>>) :
            sz \in {<<2048, 1000>>, <<2049, 1>>, <<2244, 561>>,
                    <<1000, MaxSide>>, <<MaxSide, MaxSide>>}}
    \cup {Raster(<<100, 100>>, "RGBA", <<200, 100, 50, 0>>),
          Raster(<<3000, 1500>>, "RGBA", <<200, 100, 50, 128>>),
          Raster(<<100, 100>>, "L", <<77>>),
          Raster(<<100, 100>>, "LA", <<0, 0>>),
          Raster(<<100, 100>>, "LA", <<90, 255>>)}

Uploads ==
    {Upload("image/png", 1, img) : img \in Images}
    \cup {Upload("image/jpeg", 1, Small),
          Upload("image/jpg", max_upload_size, Small),
          Upload("image/png", max_upload_size + 1, Small),
          Upload("image/jpeg", max_upload_size + 1, NoImage),
          Upload("image/gif", 1, Small),
          Upload("text/plain", 1, NoImage),
          Upload("image/gif", max_upload_size + 1, Small)}

\* what one call of rembg's remove does: the mode of the PNG it returns, or
\* it raises
RembgOutcomes == {"RGBA", "RGB", "raise"}

(***************************************************************************)
(* BackgroundRemover (model_loader.py)                                     *)
(***************************************************************************)
\* max_size of model_loader.py:70
max_size == 2048

MaxOf(size) == IF size[1] >= size[2] THEN size[1] ELSE size[2]

\* model_loader.py:72-73
NewSize(size) ==
    LET ratio == FloatDiv(max_size, MaxOf(size))
    IN  <<FloatToInt(FloatMul(size[1], ratio)), FloatToInt(FloatMul(size[2], ratio))>>

\* Pillow's division by 255 with rounding
Div255(a) == ((a + 128) + ((a + 128) \div 256)) \div 256

\* model_loader.py:81-82: a white RGB image with the RGBA image pasted on it,
\* its alpha band as the mask
PasteOnWhite(px) ==
    [c \in 1..3 |-> Div255(255 * (255 - px[4]) + px[c] * px[4])]

\* model_loader.py:85: image.convert('RGB') of a mode other than RGB, RGBA
ConvertToRGB(mode, px) ==
    IF mode \in {"L", "LA"} THEN <<px[1], px[1], px[1]>>
    ELSE <<px[1], px[2], px[3]>>

\* model_loader.py:77-85
ToRGB(image) ==
    IF image.mode # "RGB"
    THEN IF image.mode = "RGBA"
         THEN [image EXCEPT !.mode = "RGB", !.px = PasteOnWhite(image.px)]
         ELSE [image EXCEPT !.mode = "RGB", !.px = ConvertToRGB(image.mode, image.px)]
    ELSE image

\* the record of one call of remove_background: the exception it raised
\* (<<>> for none), the size computed at line 73 (<<>> when not computed), the
\* image handed to rembg (NoImage when remove was not called) and the mode of
\* the PNG returned
Raised(cause, new_size, fed) ==
    [exc |-> <<"Failed to remove background: ", cause>>, new_size |-> new_size,
     fed |-> fed, out |-> "none"]

\* model_loader.py:52-111: BackgroundRemover.remove_background
BackgroundRemover_remove_background(image_data, rembg) ==
    IF ~image_data.ok
    THEN Raised("cannot identify image file", <<>>, NoImage)
    ELSE LET big      == MaxOf(image_data.size) > max_size
             new_size == IF big THEN NewSize(image_data.size) ELSE <<>>
             resized  == IF big THEN [image_data EXCEPT !.size = new_size]
                         ELSE image_data
             image    == ToRGB(resized)
         IN  IF big /\ (new_size[1] < 1 \/ new_size[2] < 1)
             THEN Raised("height and width must be > 0", new_size, NoImage)
             ELSE IF rembg = "raise"
             THEN Raised("rembg remove failed", new_size, image)
             ELSE [exc |-> <<>>, new_size |-> new_size, fed |-> image,
                   out |-> IF rembg # "RGBA" THEN "RGBA" ELSE rembg]

\* no call of remove_background was made
NoCall == [exc |-> <<>>, new_size |-> <<>>, fed |-> NoImage, out |-> "none"]

\* __init__ without the re-raise of line 50
BackgroundRemover_init_swallow(available, first_call) ==
    IF ~available THEN "raise" ELSE "ok"

\* model_loader.py:27-50: BackgroundRemover.__init__; first_call is what the
\* test invocation of remove does
BackgroundRemover_init(available, first_call) ==
    IF ~available THEN "raise"
    ELSE IF first_call = "raise" THEN "raise"
    ELSE "ok"

(***************************************************************************)
(* The handlers of app.py                                                  *)
(***************************************************************************)
VARIABLES
    REMBG_AVAILABLE,  \* model_loader.py:12-17
    first_call,       \* what the test invocation at model_loader.py:46 did
    lifespan,         \* where the application is in its life
    bg_remover,       \* app.py:40
    req,              \* the POST /remove-bg handlers
    health            \* the last answer of GET /health

vars == <<REMBG_AVAILABLE, first_call, lifespan, bg_remover, req, health>>

\* the check of line 85 left out
ServiceUnavailable_never(h) == FALSE

\* app.py:85
ServiceUnavailable(h) == h = None

\* any image/* type let through
ContentTypeAllowed_anyImage(ct) ==
    ct \in {"image/jpeg", "image/png", "image/jpg", "image/gif"}

\* app.py:92
ContentTypeAllowed(ct) == ct \in {"image/jpeg", "image/png", "image/jpg"}

\* a limit of 100MB
TooLarge_100MB(n) == n > 100 * 1024 * 1024

\* app.py:103-104
TooLarge(n) == n > max_upload_size

\* shutdown_event without its global declaration: the assignment is local
HandleAfterShutdown_local(h) == h

\* app.py:60
HandleAfterShutdown(h) == None

\* a health check that does not look at the handle
ModelLoaded_always(h) == TRUE

\* app.py:69
ModelLoaded(h) == h # None

HTTPException(status, detail) ==
    [type |-> "HTTPException", status |-> status, detail |-> detail]
Exception(msg) == [type |-> "Exception", status |-> 0, detail |-> msg]
Response200 == [type |-> "Response", status |-> 200, detail |-> <<>>]

\* the handler without `except HTTPException: raise`
ExceptHandler_catchAll(e) ==
    IF e.type = "Response" THEN e
    ELSE [type |-> "HTTPException", status |-> 500,
          detail |-> <<"Failed to process image: ">> \o e.detail]

\* app.py:129-136: what leaves the try block
ExceptHandler(e) ==
    IF e.type = "HTTPException" THEN e
    ELSE IF e.type = "Exception"
    THEN HTTPException(500, <<"Failed to process image: ">> \o e.detail)
    ELSE e

\* app.py:98-127, after file.read() has returned: the outcome of the try
\* block and the call of remove_background made in it
TryBlock(h, len, img, rembg) ==
    IF TooLarge(len)
    THEN [res |-> HTTPException(400, <<"File too large. Maximum size is 10MB. Got: ",
                                       ToString(len), " bytes">>),
          call |-> NoCall]
    ELSE IF h = None
    THEN [res |-> Exception(<<"'NoneType' object has no attribute 'remove_background'">>),
          call |-> NoCall]
    ELSE LET c == BackgroundRemover_remove_background(img, rembg)
         IN  [res |-> IF c.exc # <<>> THEN Exception(c.exc) ELSE Response200,
              call |-> c]

Idle ==
    [pc |-> "idle", ct |-> "none", len |-> 0, img |-> NoImage, atStart |-> None,
     atCall |-> "none", read |-> FALSE, status |-> 0, detail |-> <<>>,
     raised |-> <<>>, call |-> NoCall]

Init ==
    /\ REMBG_AVAILABLE \in BOOLEAN
    /\ first_call = "not made"
    /\ lifespan = "created"
    /\ bg_remover = None
    /\ req = [r \in Reqs |-> Idle]
    /\ health = [status |-> 0, model_loaded |-> FALSE, initialized |-> FALSE,
                 shut |-> FALSE]

\* app.py:43-53: startup_event, run once by the server before it serves
startup_event ==
    /\ lifespan = "created"
    /\ \E fc \in {"ok", "raise"} :
          LET made == IF REMBG_AVAILABLE THEN fc ELSE "not made"
          IN  /\ first_call' = made
              /\ IF BackgroundRemover_init(REMBG_AVAILABLE, made) = "ok"
                 THEN bg_remover' = Handle /\ lifespan' = "serving"
                 ELSE bg_remover' = bg_remover /\ lifespan' = "aborted"
    /\ UNCHANGED <<REMBG_AVAILABLE, req, health>>

\* app.py:56-61: shutdown_event, run once by the server that started
shutdown_event ==
    /\ lifespan = "serving"
    /\ bg_remover' = HandleAfterShutdown(bg_remover)
    /\ lifespan' = "stopped"
    /\ UNCHANGED <<REMBG_AVAILABLE, first_call, req, health>>

\* app.py:64-71: health_check
health_check ==
    /\ health' = [status |-> 200, model_loaded |-> ModelLoaded(bg_remover),
                  initialized |-> lifespan \in {"serving", "stopped"},
                  shut |-> lifespan = "stopped"]
    /\ UNCHANGED <<REMBG_AVAILABLE, first_call, lifespan, bg_remover, req>>

\* app.py:85-100: remove_background up to the await of file.read()
remove_background_start(r) ==
    /\ req[r].pc \in {"idle", "done"}
    /\ \E file \in Uploads :
          LET ct  == file.ct
              new == [Idle EXCEPT !.ct = ct, !.len = file.len, !.img = file.img,
                                  !.atStart = bg_remover]
          IN  req' = [req EXCEPT ![r] =
                 IF ServiceUnavailable(bg_remover)
                 THEN [new EXCEPT !.pc = "done", !.status = 503,
                          !.detail = <<"Background removal service is not available. Model not loaded.">>]
                 ELSE IF ~ContentTypeAllowed(ct)
                 THEN [new EXCEPT !.pc = "done", !.status = 400,
                          !.detail = <<"Invalid file type. Only JPG and PNG are supported. Got: ", ct>>]
                 ELSE [new EXCEPT !.pc = "reading"]]
    /\ UNCHANGED <<REMBG_AVAILABLE, first_call, lifespan, bg_remover, health>>

\* app.py:100-136: remove_background from the return of file.read()
remove_background_resume(r) ==
    /\ req[r].pc = "reading"
    /\ \E rembg \in RembgOutcomes :
       \E t \in {TryBlock(bg_remover, req[r].len, req[r].img, rembg)} :
          LET out == ExceptHandler(t.res)
          IN  req' = [req EXCEPT ![r] =
                 [@ EXCEPT !.pc = "done", !.read = TRUE,
                           !.atCall = IF TooLarge(req[r].len) THEN "none" ELSE bg_remover,
                           !.status = out.status, !.detail = out.detail,
                           !.raised = IF t.res.type = "Exception" THEN t.res.detail ELSE <<>>,
                           !.call = t.call]]
    /\ UNCHANGED <<REMBG_AVAILABLE, first_call, lifespan, bg_remover, health>>

Next ==
    \/ startup_event
    \/ shutdown_event
    \/ health_check
    \/ \E r \in Reqs : remove_background_start(r)
    \/ \E r \in Reqs : remove_background_resume(r)

Spec == Init /\ [][Next]_vars

(***************************************************************************)
(* The properties checked                                                  *)
(***************************************************************************)
AllowedTypes == {"image/jpeg", "image/png", "image/jpg"}
TenMiB == 10485760

\* a handler that has started
Started(r) == req[r].pc # "idle"
\* a handler that has answered
Answered(r) == req[r].pc = "done"
\* neither the normalizer nor the model ran for the request
NotProcessed(r) == req[r].call = NoCall

\* the state of the Model Lifecycle Holder
Holder ==
    IF bg_remover # None THEN "Ready"
    ELSE IF lifespan = "stopped" THEN "Stopped" ELSE "Uninitialized"

\* C1: a POST /remove-bg whose handler starts while the handle is None is
\* answered 503 whatever its content type and length are, and for it the body
\* is not read and neither the normalizer nor the model is called.
C1_NotReadyIs503 ==
    \A r \in Reqs :
        (Started(r) /\ req[r].atStart = None) =>
            /\ Answered(r)
            /\ req[r].status = 503
            /\ ~req[r].read
            /\ NotProcessed(r)

\* C1 witness: a well-formed PNG upload refused with 503 after shutdown
C1_Witness ==
    \E r \in Reqs :
        /\ Answered(r) /\ req[r].atStart = None /\ req[r].status = 503
        /\ req[r].ct = "image/png" /\ req[r].len = 1 /\ req[r].img.ok
        /\ lifespan = "stopped"

\* C2 as stated: every upload with a content type outside the allowed set is
\* answered 400 and the normalizer is not called.
C2_Original ==
    \A r \in Reqs :
        (Answered(r) /\ req[r].ct \notin AllowedTypes) =>
            (req[r].status = 400 /\ NotProcessed(r))

\* C2 amended: every upload with a content type outside the allowed set whose
\* handler starts while the holder is Ready is answered 400 with the rejected
\* type in the message, and the normalizer is not called; when the holder is
\* not Ready the answer is 503.
C2_BadTypeIs400 ==
    \A r \in Reqs :
        (Started(r) /\ req[r].ct \notin AllowedTypes) =>
            /\ Answered(r)
            /\ NotProcessed(r)
            /\ ~req[r].read
            /\ req[r].atStart # None =>
                   (req[r].status = 400 /\ req[r].detail[2] = req[r].ct)
            /\ req[r].atStart = None => req[r].status = 503

\* C2 witness: an image/gif upload refused with 400 by a Ready service
C2_Witness ==
    \E r \in Reqs :
        /\ Answered(r) /\ req[r].atStart = Handle
        /\ req[r].ct = "image/gif" /\ req[r].status = 400

\* C3 as stated: every upload whose body is longer than 10,485,760 bytes is
\* answered 400 and the normalizer is not called.
C3_Original ==
    \A r \in Reqs :
        (Answered(r) /\ req[r].len > TenMiB) =>
            (req[r].status = 400 /\ NotProcessed(r))

\* C3 amended: every upload whose body is longer than 10,485,760 bytes and
\* whose handler starts while the holder is Ready is answered 400 and the
\* normalizer is not called; the 400 of the size check, raised inside the try
\* block, leaves the handler as a 400 carrying the length, never as a 500.
C3_TooLargeIs400 ==
    \A r \in Reqs :
        (Answered(r) /\ req[r].len > TenMiB) =>
            /\ NotProcessed(r)
            /\ req[r].atStart # None => req[r].status = 400
            /\ req[r].atStart = None => req[r].status = 503
            /\ req[r].read =>
                   /\ req[r].status = 400
                   /\ req[r].detail[2] = ToString(req[r].len)

\* C3 witness: the size check itself answered 400
C3_Witness ==
    \E r \in Reqs :
        /\ Answered(r) /\ req[r].read /\ req[r].len = TenMiB + 1
        /\ req[r].ct \in AllowedTypes /\ req[r].status = 400

\* the request passed the three validation steps
PassedValidation(r) ==
    /\ req[r].atStart # None
    /\ req[r].ct \in AllowedTypes
    /\ req[r].len <= TenMiB

\* C4: an exception raised by normalization or segmentation gives a 500 whose
\* detail embeds the failure's description; a 500 is only given to a request
\* that passed validation and on an exception; an error built by a validation
\* step keeps its status (503, 400); a 200 is given only when the processing
\* completed without exception.
C4_FailureMapping ==
    \A r \in Reqs :
        Answered(r) =>
            /\ req[r].call.exc # <<>> =>
                   /\ req[r].status = 500
                   /\ req[r].detail = <<"Failed to process image: ">> \o req[r].call.exc
            /\ req[r].status = 500 =>
                   /\ PassedValidation(r)
                   /\ req[r].raised # <<>>
                   /\ req[r].detail = <<"Failed to process image: ">> \o req[r].raised
            /\ ~PassedValidation(r) =>
                   /\ req[r].status = IF req[r].atStart = None THEN 503 ELSE 400
                   /\ NotProcessed(r)
            /\ req[r].status = 200 =>
                   /\ req[r].call # NoCall
                   /\ req[r].call.exc = <<>>
                   /\ req[r].call.out = "RGBA"
            /\ req[r].status \in {200, 400, 500, 503}

\* C4 witness: bytes that are no image, declared image/png, answered 500 with
\* the decode failure in the detail
C4_Witness ==
    \E r \in Reqs :
        /\ Answered(r) /\ req[r].ct = "image/png" /\ ~req[r].img.ok
        /\ req[r].status = 500
        /\ req[r].detail[3] = "cannot identify image file"

\* C5: the holder only moves Uninitialized -> Ready -> Stopped; once shutdown
\* has run it is Stopped and stays so; only startup_event and shutdown_event
\* write bg_remover (a step that changes it changes no request and no health
\* answer).
C5_OneWay ==
    [][/\ Holder = "Uninitialized" => Holder' \in {"Uninitialized", "Ready"}
       /\ Holder = "Ready" => Holder' \in {"Ready", "Stopped"}
       /\ Holder = "Stopped" => Holder' = "Stopped"
       /\ lifespan' = "stopped" => Holder' = "Stopped"
       /\ bg_remover' # bg_remover =>
              (req' = req /\ health' = health /\ lifespan' # lifespan)]_vars

\* C5 witness: the holder is Stopped and a request was answered since
C5_Witness ==
    /\ Holder = "Stopped"
    /\ health.shut
    /\ \E r \in Reqs : Answered(r) /\ req[r].atStart = None /\ req[r].status = 503

\* C6: when rembg is missing or the first test invocation fails, startup
\* aborts, the handle is never assigned and no POST /remove-bg is answered 200
\* (nor gets past the check of the handle).
C6_FailedInitNeverServes ==
    (lifespan # "created" /\ (~REMBG_AVAILABLE \/ first_call = "raise")) =>
        /\ lifespan = "aborted"
        /\ bg_remover = None
        /\ \A r \in Reqs : req[r].status # 200 /\ req[r].pc # "reading"
        /\ ~health.model_loaded

\* C6 witness: the first invocation failed, startup aborted, and a request
\* made afterwards was refused
C6_Witness ==
    /\ lifespan = "aborted" /\ first_call = "raise"
    /\ \E r \in Reqs : Answered(r) /\ req[r].status = 503

\* C7: GET /health answers 200 in every holder state; model_loaded is true
\* iff startup has completed and shutdown has not run; the handler changes
\* neither the holder nor any request (it makes no model call).
C7_Health ==
    /\ [](health.status # 0 =>
             /\ health.status = 200
             /\ health.model_loaded = (health.initialized /\ ~health.shut))
    /\ [][health' # health =>
             /\ bg_remover' = bg_remover
             /\ lifespan' = lifespan
             /\ req' = req]_vars

\* C7 witness: a health check after shutdown says model_loaded false
C7_Witness ==
    health.status = 200 /\ health.shut /\ ~health.model_loaded

Abs(n) == IF n < 0 THEN 0 - n ELSE n

\* C8 as stated: an image with a side over 2048 leaves the resize with its
\* longest side 2048 (2047 by rounding), both sides positive and the aspect
\* ratio kept within one pixel; an image with no side over 2048 keeps its size.
C8_Original ==
    \A r \in Reqs :
        (Answered(r) /\ req[r].call # NoCall /\ req[r].img.ok) =>
            LET size == req[r].img.size
                new  == req[r].call.new_size
            IN  IF MaxOf(size) > 2048
                THEN /\ new # <<>>
                     /\ new[1] >= 1 /\ new[2] >= 1
                     /\ MaxOf(new) \in {2047, 2048}
                     /\ Abs(new[1] * MaxOf(size) - size[1] * 2048) <= MaxOf(size)
                     /\ Abs(new[2] * MaxOf(size) - size[2] * 2048) <= MaxOf(size)
                     /\ req[r].call.fed.ok => req[r].call.fed.size = new
                ELSE new = <<>> /\ req[r].call.fed.size = size

\* the pixel composited over opaque white, alpha the blend weight
OverWhite(colour, alpha) ==
    [c \in 1..3 |-> Div255(255 * (255 - alpha) + colour[c] * alpha)]

\* C9 as stated: an image whose mode has a transparency channel is composited
\* over white with that channel as the weight, any other non-RGB image gets
\* the standard conversion, and the image handed to the model is 3-channel.
C9_Original ==
    \A r \in Reqs :
        (Answered(r) /\ req[r].call.fed.ok) =>
            LET img == req[r].img
                fed == req[r].call.fed
            IN  /\ fed.mode = "RGB"
                /\ Len(fed.px) = 3
                /\ img.mode = "RGBA" =>
                       fed.px = OverWhite(SubSeq(img.px, 1, 3), img.px[4])
                /\ img.mode = "LA" =>
                       fed.px = OverWhite(<<img.px[1], img.px[1], img.px[1]>>, img.px[2])
                /\ img.mode = "L" => fed.px = <<img.px[1], img.px[1], img.px[1]>>
                /\ img.mode = "RGB" => fed.px = img.px

\* C10 as stated: the model is only invoked while the holder is Ready, and a
\* request that reaches the processing step after the handle was cleared is
\* answered 503, not 500.
C10_Original ==
    \A r \in Reqs :
        Answered(r) =>
            /\ req[r].call # NoCall => req[r].atCall = Handle
            /\ (req[r].read /\ req[r].atCall = None) => req[r].status = 503
====
